---- MODULE Spec2Model ----
(***************************************************************************)
(* mailrelay: a daemonless sendmail replacement.  One process run loads    *)
(* its configuration (config.New), reads one message from stdin, extracts  *)
(* the recipients (email.New) and relays the message through the first     *)
(* SMTP server of the shuffled list that accepts it (Email.Send).          *)
(*                                                                         *)
(* Strings are sequences of one-character strings.  Every call into       *)
(* net/smtp is an action of its own whose outcome (success or failure) is  *)
(* chosen by the environment.                                              *)
(***************************************************************************)
EXTENDS Integers, Sequences, FiniteSets, TLC

\* ------------------------------------------------------------------------
\* Bounds of the model
\* ------------------------------------------------------------------------

\* Largest number of ';'-separated entries put into MAILRELAY_SERVERS.
MaxEntries == 2

\* ------------------------------------------------------------------------
\* Strings (Go's strings package, as far as the program uses it)
\* ------------------------------------------------------------------------

\* Position in s of the first element of set cs at or after position i, 0 if none.
RECURSIVE IndexAnyFrom(_, _, _)
IndexAnyFrom(s, cs, i) ==
    IF i > Len(s) THEN 0
    ELSE IF s[i] \in cs THEN i
    ELSE IndexAnyFrom(s, cs, i + 1)

\* strings.IndexByte: position of the first c in s, 0 if none.
Index(s, c) == IndexAnyFrom(s, {c}, 1)

\* strings.LastIndex for one byte: position of the last c in s, 0 if none.
LastIndex(s, c) ==
    LET ps == {i \in 1..Len(s) : s[i] = c}
    IN  IF ps = {} THEN 0 ELSE CHOOSE i \in ps : \A j \in ps : j <= i

\* strings.Split(s, sep) for a one-byte separator: Split("", sep) is [""].
RECURSIVE Split(_, _)
Split(s, sep) ==
    LET i == Index(s, sep)
    IN  IF i = 0 THEN <<s>>
        ELSE <<SubSeq(s, 1, i - 1)>> \o Split(SubSeq(s, i + 1, Len(s)), sep)

\* strings.Trim(s, cutset): s without its leading and trailing bytes of cutset.
Trim(s, cutset) ==
    LET keep == {i \in 1..Len(s) : s[i] \notin cutset}
    IN  IF keep = {} THEN <<>>
        ELSE SubSeq(s, CHOOSE i \in keep : \A j \in keep : i <= j,
                       CHOOSE i \in keep : \A j \in keep : j <= i)

\* strings.Join(parts, sep): used to build the inputs of the model.
RECURSIVE Join(_, _)
Join(parts, sep) ==
    IF Len(parts) = 0 THEN <<>>
    ELSE IF Len(parts) = 1 THEN parts[1]
    ELSE parts[1] \o <<sep>> \o Join(Tail(parts), sep)

\* All sequences over S of length at most n.
SeqsUpTo(S, n) == UNION {[1..k -> S] : k \in 0..n}

\* ------------------------------------------------------------------------
\* Inputs of one run
\* ------------------------------------------------------------------------

\* A string literal as a sequence of characters.
Host1 == <<"a", ":", "1">>
Host2 == <<"b", ":", "1">>
NoPort == <<"x">>
SenderArg == <<"s">>
SenderEnv == <<"e">>

\* The entries MAILRELAY_SERVERS is built from: two endpoints and one entry
\* that is no host:port pair.
EnvEntries == {Host1, Host2, NoPort}

\* The values of MAILRELAY_SERVERS: up to MaxEntries entries joined by ';'
\* (the same entry may be listed more than once).
EnvServerValues == {Join(es, ";") : es \in SeqsUpTo(EnvEntries, MaxEntries)}

\* os.Args[1:] together with MAILRELAY_FROM and MAILRELAY_VERBOSE: the sender
\* from the environment, the sender from -f with a verbose run, a call for
\* help, a -f without its value, and no sender at all.
Invocations ==
    { [args |-> <<>>, from |-> SenderEnv, verbose |-> <<>>],
      [args |-> <<<<"-", "f", "s">>>>, from |-> <<>>, verbose |-> <<"1">>],
      [args |-> <<<<"-", "h">>>>, from |-> SenderEnv, verbose |-> <<>>],
      [args |-> <<<<"-", "f">>>>, from |-> SenderEnv, verbose |-> <<>>],
      [args |-> <<>>, from |-> <<>>, verbose |-> <<>>] }

\* ------------------------------------------------------------------------
\* internal/config
\* ------------------------------------------------------------------------

\* net.SplitHostPort(hostport) returns no error.
SplitHostPortOK(hostport) ==
    LET i == LastIndex(hostport, ":")
        n == Len(hostport)
        end == Index(hostport, "]")
        bracket == hostport[1] = "["
        j == IF bracket THEN 2 ELSE 1
        k == IF bracket THEN end + 1 ELSE 1
    IN  /\ i # 0
        /\ IF bracket
           THEN /\ end # 0
                /\ end # n
                /\ end = i - 1
           ELSE Index(SubSeq(hostport, 1, i - 1), ":") = 0
        /\ Index(SubSeq(hostport, j, n), "[") = 0
        /\ Index(SubSeq(hostport, k, n), "]") = 0

\* The zero value of Config.
ZeroConfig ==
    [BeVerbose |-> FALSE, ShowHelp |-> FALSE, FromAddr |-> <<>>,
     SmtpAddrs |-> <<>>, Recipients |-> <<>>]

\* A loop over the entries that appends every one of them.
AppendValid_KeepsAll(addrs, relays) == addrs \o relays

\* The loop of parseEnvironment over the entries: the valid ones are appended
\* in order, the invalid ones skipped.
RECURSIVE AppendValid(_, _)
AppendValid(addrs, relays) ==
    IF relays = <<>> THEN addrs
    ELSE AppendValid(IF SplitHostPortOK(Head(relays))
                     THEN Append(addrs, Head(relays)) ELSE addrs,
                     Tail(relays))

\* (*Config).parseEnvironment
parseEnvironment(cfg, envServers, envFrom, envVerbose) ==
    [cfg EXCEPT
        !.SmtpAddrs = IF Len(envServers) > 0
                      THEN AppendValid(@, Split(Trim(envServers, {"\""}), ";"))
                      ELSE @,
        !.FromAddr = IF Len(envFrom) > 0 THEN envFrom ELSE @,
        !.BeVerbose = IF Len(envVerbose) > 0 THEN TRUE ELSE @]

\* The first loop of parseArguments: "-fX" becomes "-f", "X".
RECURSIVE processArgs(_)
processArgs(args) ==
    IF args = <<>> THEN <<>>
    ELSE LET arg == Head(args)
         IN  (IF Len(arg) > 2 /\ SubSeq(arg, 1, 2) = <<"-", "f">>
              THEN <<<<"-", "f">>, SubSeq(arg, 3, Len(arg))>>
              ELSE <<arg>>) \o processArgs(Tail(args))

\* flag.CommandLine.Parse for the flags -v, -f and -h: the flags read so far
\* and err = TRUE where the flag package reports an error (and, the flag set
\* being ExitOnError, exits with code 2).
RECURSIVE flagParse(_, _)
flagParse(cfg, args) ==
    IF args = <<>> THEN [cfg |-> cfg, err |-> FALSE]
    ELSE LET s == Head(args)
         IN  IF Len(s) < 2 \/ s[1] # "-" THEN [cfg |-> cfg, err |-> FALSE]
             ELSE IF s = <<"-", "v">>
                  THEN flagParse([cfg EXCEPT !.BeVerbose = TRUE], Tail(args))
             ELSE IF s = <<"-", "h">>
                  THEN flagParse([cfg EXCEPT !.ShowHelp = TRUE], Tail(args))
             ELSE IF s = <<"-", "f">>
                  THEN IF Len(args) > 1
                       THEN flagParse([cfg EXCEPT !.FromAddr = args[2]],
                                      Tail(Tail(args)))
                       ELSE [cfg |-> cfg, err |-> TRUE]
             ELSE [cfg |-> cfg, err |-> TRUE]

\* (*Config).parseArguments, up to its os.Exit(0) for -h.
parseArguments(cfg, args) == flagParse(cfg, processArgs(args))

\* A validation that does not look at the sender.
validateSettings_ServersOnly(cfg) == Len(cfg.SmtpAddrs) # 0

\* A validation that does not look at the servers.
validateSettings_SenderOnly(cfg) == cfg.FromAddr # <<>>

\* (*Config).validateSettings returns no error.
validateSettings(cfg) == Len(cfg.SmtpAddrs) # 0 /\ cfg.FromAddr # <<>>

\* An exchange that writes only one of the two elements.
Swap_Overwrite(addrs, idx1, idx2) == [addrs EXCEPT ![idx1 + 1] = addrs[idx2 + 1]]

\* Two elements of a sequence exchanged (positions counted from 0, as in Go).
Swap(addrs, idx1, idx2) ==
    [addrs EXCEPT ![idx1 + 1] = addrs[idx2 + 1], ![idx2 + 1] = addrs[idx1 + 1]]

\* The draws the shuffle of n servers can make: for each k the two values of
\* r.Int(), a non-negative integer each, as far as % (k + 1) tells them apart.
ShuffleDraws(n) ==
    {d \in [0..(n - 1) -> (0..(n - 1)) \X (0..(n - 1))] :
        \A k \in 0..(n - 1) : d[k][1] <= k /\ d[k][2] <= k}

\* The loop of randomizeSMTPServers from iteration k on.
RECURSIVE shuffleFrom(_, _, _)
shuffleFrom(addrs, d, k) ==
    IF k >= Len(addrs) THEN addrs
    ELSE shuffleFrom(Swap(addrs, d[k][1] % (k + 1), d[k][2] % (k + 1)), d, k + 1)

\* (*Config).randomizeSMTPServers with the draws d.
randomizeSMTPServers(cfg, d) ==
    [cfg EXCEPT !.SmtpAddrs = shuffleFrom(@, d, 0)]

\* ------------------------------------------------------------------------
\* internal/email: recipient extraction
\* ------------------------------------------------------------------------

\* The two copies of the email package in the repository:
\* internal/email/email.go and the unnamed one.
Impls == {"email.go", "part_000"}

WhiteSpace == {" ", "\t"}

\* Upper- and lower-case forms of the letters the header names are made of.
UpperOf(c) ==
    CASE c = "t" -> "T" [] c = "o" -> "O" [] c = "c" -> "C" [] c = "b" -> "B"
      [] c = "s" -> "S" [] OTHER -> c

LowerOf(c) ==
    CASE c = "T" -> "t" [] c = "O" -> "o" [] c = "C" -> "c" [] c = "B" -> "b"
      [] c = "S" -> "s" [] OTHER -> c

\* The bytes of the model's strings that no header name may hold.
ValidHeaderFieldByte(c) == c \notin {" ", "\t", ",", ";", ":", "<", ">", "\n"}

\* textproto.CanonicalMIMEHeaderKey: the first letter and every letter after
\* a '-' in upper case, the others in lower case; a key with a byte that no
\* header name may hold is left as it is.
CanonicalMIMEHeaderKey(key) ==
    IF \E i \in 1..Len(key) : ~ValidHeaderFieldByte(key[i]) THEN key
    ELSE [i \in 1..Len(key) |->
            IF i = 1 \/ key[i - 1] = "-" THEN UpperOf(key[i]) ELSE LowerOf(key[i])]

\* strings.TrimLeft(s, cutset)
TrimLeft(s, cutset) ==
    LET keep == {i \in 1..Len(s) : s[i] \notin cutset}
    IN  IF keep = {} THEN <<>>
        ELSE SubSeq(s, CHOOSE i \in keep : \A j \in keep : i <= j, Len(s))

\* The lines the reader gets from the message: each ends at a line feed, and
\* what follows the last line feed is a line when it is not empty.
Lines(body) ==
    LET ls == Split(body, "\n")
    IN  IF ls[Len(ls)] = <<>> THEN SubSeq(ls, 1, Len(ls) - 1) ELSE ls

\* The header lines of a message: the lines before the first empty one, and
\* whether that empty line is there (the input ends without it otherwise).
HeaderBlock(body) ==
    LET lines == Lines(body)
        blank == {i \in 1..Len(lines) : lines[i] = <<>>}
        first == CHOOSE i \in blank : \A j \in blank : i <= j
    IN  IF blank = {}
        THEN [lines |-> lines, closed |-> FALSE]
        ELSE [lines |-> SubSeq(lines, 1, first - 1), closed |-> TRUE]

\* textproto.Reader.ReadContinuedLine over the header lines: every line
\* without its surrounding blanks, a line that starts with a blank joined to
\* the one before it by one space.
RECURSIVE ReadContinuedLines(_, _)
ReadContinuedLines(acc, lines) ==
    IF lines = <<>> THEN acc
    ELSE LET line == Head(lines)
             trimmed == Trim(line, WhiteSpace)
         IN  IF acc # <<>> /\ line[1] \in WhiteSpace
             THEN ReadContinuedLines(
                      [acc EXCEPT ![Len(acc)] = @ \o <<" ">> \o trimmed],
                      Tail(lines))
             ELSE ReadContinuedLines(Append(acc, trimmed), Tail(lines))

\* One header line "Key: value" as <<Key, value>>: the key, which ends at
\* the first colon, in canonical form, the value without its leading blanks.
HeaderField(line) ==
    LET i == Index(line, ":")
    IN  <<CanonicalMIMEHeaderKey(SubSeq(line, 1, i - 1)),
          TrimLeft(SubSeq(line, i + 1, Len(line)), WhiteSpace)>>

\* A header line the mail reader accepts: one with a colon.
WellFormedLine(line) == Index(line, ":") > 0

\* mail.ReadMessage (of the Go 1.22 the project is built with): err, or the
\* header fields in the order of the message.  It fails for a first line
\* that starts with a blank, for a header line without a colon, and for an
\* input that ends before the empty line without having given a header
\* field; a line with an empty key is dropped.
ReadMessage(body) ==
    LET hb == HeaderBlock(body)
        kvs == ReadContinuedLines(<<>>, hb.lines)
        fields == SelectSeq([i \in 1..Len(kvs) |->
                                IF WellFormedLine(kvs[i]) THEN HeaderField(kvs[i])
                                ELSE <<<<>>, <<>>>>],
                            LAMBDA f : f[1] # <<>>)
    IN  IF \/ (body # <<>> /\ body[1] \in WhiteSpace)
           \/ \E i \in 1..Len(kvs) : ~WellFormedLine(kvs[i])
           \/ (~hb.closed /\ fields = <<>>)
        THEN [err |-> TRUE, header |-> <<>>]
        ELSE [err |-> FALSE, header |-> fields]

\* mail.Header.Get(h): the first value of the header named h, "" if none.
HeaderGet(header, h) ==
    LET key == CanonicalMIMEHeaderKey(h)
        at == {i \in 1..Len(header) : header[i][1] = key}
    IN  IF at = {} THEN <<>>
        ELSE header[CHOOSE i \in at : \A j \in at : i <= j][2]

\* regexp `.*<(.*)>` on one part: the submatch, both stars greedy, is what
\* lies between the last '<' that has a '>' after it and the last '>'.
\* matched = FALSE when the part does not match.
FindStringSubmatch(trimmed) ==
    LET gt == LastIndex(trimmed, ">")
        lt == LastIndex(SubSeq(trimmed, 1, gt - 1), "<")
    IN  IF gt = 0 \/ lt = 0 THEN [matched |-> FALSE, group |-> <<>>]
        ELSE [matched |-> TRUE, group |-> SubSeq(trimmed, lt + 1, gt - 1)]

\* The body of the inner loop of parseRecipients for one comma part: the
\* recipients with the part's address appended.  Only internal/email/email.go
\* skips a part that is empty after trimming.
AppendPart(impl, recipients, part) ==
    LET trimmed == Trim(part, {" "})
        matches == FindStringSubmatch(trimmed)
    IN  IF impl = "email.go" /\ trimmed = <<>> THEN recipients
        ELSE Append(recipients,
                    IF matches.matched THEN matches.group ELSE trimmed)

RECURSIVE AppendParts(_, _, _)
AppendParts(impl, recipients, parts) ==
    IF parts = <<>> THEN recipients
    ELSE AppendParts(impl, AppendPart(impl, recipients, Head(parts)), Tail(parts))

\* The outer loop body of parseRecipients for the header h.  Only
\* internal/email/email.go skips an absent or empty header.
AppendHeader(impl, recipients, header, h) ==
    LET headerValue == HeaderGet(header, h)
    IN  IF impl = "email.go" /\ headerValue = <<>> THEN recipients
        ELSE AppendParts(impl, recipients, Split(headerValue, ","))

\* (*Email).parseRecipients: err, and the recipient list of the configuration
\* afterwards (the extracted addresses are appended to what it held).
parseRecipients(impl, recipients, body) ==
    LET msg == ReadMessage(body)
    IN  IF msg.err THEN [err |-> TRUE, recipients |-> recipients]
        ELSE [err |-> FALSE,
              recipients |->
                AppendHeader(impl,
                  AppendHeader(impl,
                    AppendHeader(impl, recipients, msg.header, <<"t", "o">>),
                    msg.header, <<"c", "c">>),
                  msg.header, <<"b", "c", "c">>)]

\* Messages: without recipients, with one, with two (one of them in angle
\* brackets), and one that is no header block.
MsgNoRcpt == <<"S", ":", "x", "\n", "\n", "m">>
MsgOneRcpt == <<"T", "o", ":", "r", "\n", "\n", "m">>
MsgTwoRcpt == <<"T", "o", ":", "N", "<", "r", ">", ",", " ", "q", "\n", "\n", "m">>
MsgBad == <<"b", "a", "d">>

\* The messages read from stdin.
Messages == {MsgNoRcpt, MsgTwoRcpt, MsgBad}

\* ------------------------------------------------------------------------
\* State
\* ------------------------------------------------------------------------

VARIABLES
    impl,        \* which copy of the email package the program is built from
    inv,         \* os.Args[1:], MAILRELAY_FROM and MAILRELAY_VERBOSE
    envServers,  \* MAILRELAY_SERVERS
    pc,          \* where the process stands
    cfg,         \* the Config
    Body,        \* Email.Body
    srv,         \* sendWithDialer: position of the server of this iteration
    err,         \* sendWithDialer: its variable err
    terr,        \* attemptRelayWithDialer: the error it is returning
    rcpt,        \* attemptRelayWithDialer: position of the next recipient
    open,        \* the servers (positions) with an open connection
    wc,          \* the data writer: "none", "open" or "closed"
    Written,     \* the bytes the data writer accepted
    log,         \* the calls made to the dialer and the SMTP clients, in order
    stdout,      \* the lines printed for a verbose run
    result,      \* what Send returned
    exit         \* the exit code of the process, -1 while it runs

vars == <<impl, inv, envServers, pc, cfg, Body, srv, err, terr, rcpt, open, wc,
          Written, log, stdout, result, exit>>

sendVars == <<srv, err, terr, rcpt, open, wc, Written, log, stdout, result>>

\* internal/exitcode
Success == 0
ConfigError == 1
SendError == 2
IOError == 3
ParseError == 4

\* The exit code of the flag package for a command line it rejects.
FlagError == 2

\* A nil error, and the error the call `at` returned in the transaction with
\* the server at position k.
Nil == [srv |-> 0, at |-> "nil"]
StepError(k, at) == [srv |-> k, at |-> at]

Pending == [state |-> "pending", via |-> 0, wraps |-> Nil]

\* One call: the server position, the method, its argument and whether it
\* succeeded.  "Return" marks the return of attemptRelayWithDialer.
Call(k, op, arg, ok) == [srv |-> k, op |-> op, arg |-> arg, ok |-> ok]

Init ==
    /\ impl \in Impls
    /\ inv \in Invocations
    /\ envServers \in EnvServerValues
    /\ pc = "start"
    /\ cfg = ZeroConfig
    /\ Body = <<>>
    /\ srv = 0
    /\ err = Nil
    /\ terr = Nil
    /\ rcpt = 0
    /\ open = {}
    /\ wc = "none"
    /\ Written = <<>>
    /\ log = <<>>
    /\ stdout = <<>>
    /\ result = Pending
    /\ exit = -1

\* A main that exits with the same code for every failure.
Exit_FailureIsOne(code) ==
    pc' = "exit" /\ exit' = IF code = Success THEN Success ELSE ConfigError

\* os.Exit(code)
Exit(code) == pc' = "exit" /\ exit' = code

\* ------------------------------------------------------------------------
\* main, up to the call of Send
\* ------------------------------------------------------------------------

\* config.New as main calls it: parseArguments (which exits for -h and for a
\* rejected command line), parseEnvironment, validateSettings and
\* randomizeSMTPServers; main exits with ConfigError on its error.
ConfigNew ==
    /\ pc = "start"
    /\ LET pa == parseArguments(ZeroConfig, inv.args)
           pe == parseEnvironment(pa.cfg, envServers, inv.from, inv.verbose)
       IN  IF pa.err THEN Exit(FlagError) /\ cfg' = pa.cfg
           ELSE IF pa.cfg.ShowHelp THEN Exit(Success) /\ cfg' = pa.cfg
           ELSE IF ~validateSettings(pe) THEN Exit(ConfigError) /\ cfg' = pe
           ELSE /\ \E d \in ShuffleDraws(Len(pe.SmtpAddrs)) :
                        cfg' = randomizeSMTPServers(pe, d)
                /\ pc' = "stdin"
                /\ exit' = exit
    /\ UNCHANGED <<impl, inv, envServers, Body>>
    /\ UNCHANGED sendVars

\* io.ReadAll(os.Stdin) returns the message.
ReadStdin ==
    /\ pc = "stdin"
    /\ \E body \in Messages : Body' = body
    /\ pc' = "new"
    /\ UNCHANGED <<impl, inv, envServers, cfg, exit>>
    /\ UNCHANGED sendVars

\* io.ReadAll(os.Stdin) fails.
ReadStdinFails ==
    /\ pc = "stdin"
    /\ Exit(IOError)
    /\ UNCHANGED <<impl, inv, envServers, cfg, Body>>
    /\ UNCHANGED sendVars

\* An email.New that drops the error of the reader and goes on to Send.
EmailNew_IgnoresParseError ==
    /\ pc = "new"
    /\ cfg' = [cfg EXCEPT !.Recipients =
                              parseRecipients(impl, cfg.Recipients, Body).recipients]
    /\ pc' = "loop"
    /\ srv' = 1
    /\ UNCHANGED <<impl, inv, envServers, Body, exit>>
    /\ UNCHANGED <<err, terr, rcpt, open, wc, Written, log, stdout, result>>

\* email.New, then the entry into Send and sendWithDialer.
EmailNew ==
    /\ pc = "new"
    /\ LET r == parseRecipients(impl, cfg.Recipients, Body)
       IN  IF r.err
           THEN Exit(ParseError) /\ UNCHANGED <<cfg, srv>>
           ELSE /\ cfg' = [cfg EXCEPT !.Recipients = r.recipients]
                /\ pc' = "loop"
                /\ srv' = 1
                /\ exit' = exit
    /\ UNCHANGED <<impl, inv, envServers, Body>>
    /\ UNCHANGED <<err, terr, rcpt, open, wc, Written, log, stdout, result>>

\* ------------------------------------------------------------------------
\* internal/email: Send
\* ------------------------------------------------------------------------

\* A loop that leaves out every other server.
NextServer_SkipsOne(k) == k + 2

\* range e.Config.SmtpAddrs: the position after k.
NextServer(k) == k + 1

\* A loop that walks the server list from its end.
ServerAt_Reversed(k) == cfg.SmtpAddrs[Len(cfg.SmtpAddrs) - k + 1]

\* range e.Config.SmtpAddrs: the server of iteration k.
ServerAt(k) == cfg.SmtpAddrs[k]

\* The test of the loop inverted: err != nil.
AttemptSucceeded_Inverted(e) == e # Nil

\* The test of the loop of sendWithDialer on what the attempt returned.
AttemptSucceeded(e) == e = Nil

\* What the error Send returns after the loop wraps: internal/email/email.go
\* formats its variable err with %w, the unnamed copy formats no error.
WrappedError(im, e) == IF im = "email.go" THEN e ELSE Nil

\* A Send that returns its variable err itself: nil when no server was tried.
LoopError_BareErr(im, e) ==
    IF e = Nil THEN [state |-> "nil", via |-> 0, wraps |-> Nil]
    ELSE [state |-> "error", via |-> 0, wraps |-> e]

\* What Send returns when the loop is over without a success.
LoopError(im, e) ==
    [state |-> "error", via |-> 0, wraps |-> WrappedError(im, e)]

\* A transaction without the defer.
DeferredCalls_None(k) == <<>>

\* The calls deferred by attemptRelayWithDialer once the dial succeeded, run
\* when it returns: c.Close(), whose result is dropped (and logged as a
\* success).
DeferredCalls(k) == <<Call(k, "Close", <<>>, TRUE)>>

\* A transaction that answers a failure with Quit instead of returning.
OnFailure_Quit(step) == "quit"

\* Where attemptRelayWithDialer goes when a call on the client fails: it
\* returns the error, which runs the deferred c.Close().
OnFailure(step) == "defer"

\* A loop over the recipients that stops one short.
RcptOrData_OffByOne(i) == IF i < Len(cfg.Recipients) THEN "rcpt" ELSE "data"

\* A transaction that returns after Mail when there is no recipient.
RcptOrData_ReturnsWhenEmpty(i) ==
    IF i <= Len(cfg.Recipients) THEN "rcpt"
    ELSE IF Len(cfg.Recipients) = 0 THEN "defer" ELSE "data"

\* The step after Mail and after each Rcpt: the next recipient, or Data
\* when the loop over the recipients is over.
RcptOrData(i) == IF i <= Len(cfg.Recipients) THEN "rcpt" ELSE "data"

\* A Close that releases nothing.
Released_Leak(conns, k) == conns

\* The connections left open by the deferred c.Close() of the transaction
\* with the server at position k.
Released(conns, k) == conns \ {k}

\* attemptRelayWithDialer returns e for the server at position k to
\* sendWithDialer, which returns nil to main on success (main then exits with
\* Success) and goes on with the next server otherwise.  events are the
\* calls of this step.
Return(k, e, events) ==
    /\ log' = log \o events \o <<Call(k, "Return", <<>>, e = Nil)>>
    /\ err' = e
    /\ IF AttemptSucceeded(e)
       THEN /\ result' = [state |-> "nil", via |-> k, wraps |-> Nil]
            /\ stdout' = IF cfg.BeVerbose
                         THEN Append(stdout,
                                     [from |-> cfg.FromAddr,
                                      to |-> cfg.Recipients,
                                      via |-> ServerAt(k)])
                         ELSE stdout
            /\ Exit(Success)
            /\ srv' = k
       ELSE /\ srv' = NextServer(k)
            /\ pc' = "loop"
            /\ UNCHANGED <<result, stdout, exit>>

\* The loop of sendWithDialer is over without a success: Send returns its
\* error and main exits with SendError.
SendFails ==
    /\ pc = "loop"
    /\ srv > Len(cfg.SmtpAddrs)
    /\ result' = LoopError(impl, err)
    /\ Exit(SendError)
    /\ UNCHANGED <<impl, inv, envServers, cfg, Body>>
    /\ UNCHANGED <<srv, err, terr, rcpt, open, wc, Written, log, stdout>>

\* attemptRelayWithDialer for the server at position k, up to its call of
\* dialer(server): on success the connection is open and its Close deferred,
\* on failure the error is returned.
DialServer(k) ==
    /\ k <= Len(cfg.SmtpAddrs)
    /\ \E ok \in BOOLEAN :
          IF ok
          THEN /\ log' = Append(log, Call(k, "Dial", ServerAt(k), TRUE))
               /\ open' = open \cup {k}
               /\ pc' = "tls"
               /\ terr' = Nil
               /\ srv' = k
               /\ UNCHANGED <<err, stdout, result, exit>>
          ELSE /\ Return(k, StepError(k, "Dial"),
                         <<Call(k, "Dial", ServerAt(k), FALSE)>>)
               /\ UNCHANGED <<open, terr>>
    /\ wc' = "none"
    /\ Written' = <<>>
    /\ rcpt' = 0
    /\ UNCHANGED <<impl, inv, envServers, cfg, Body>>

\* A loop that starts the transaction with the next server while the
\* current one is still in progress.
Dial_Racing ==
    \/ pc = "loop" /\ DialServer(srv)
    \/ /\ pc \in {"tls", "mail", "rcpt", "data", "write", "wclose", "quit"}
       /\ DialServer(srv + 1)

\* An iteration of the loop of sendWithDialer: the transaction with the
\* server of the iteration starts when the loop is at its head.
Dial == pc = "loop" /\ DialServer(srv)

\* A call of a method op of the client at the step `step`: it succeeds and
\* the transaction goes on with `next`, or it fails and the transaction
\* returns the error.
ClientCall(step, op, arg, next) ==
    /\ pc = step
    /\ \E ok \in BOOLEAN :
          /\ log' = Append(log, Call(srv, op, arg, ok))
          /\ IF ok THEN pc' = next /\ terr' = terr
             ELSE pc' = OnFailure(step) /\ terr' = StepError(srv, op)
    /\ UNCHANGED <<impl, inv, envServers, cfg, Body, srv, err, open, stdout,
                   result, exit>>

\* c.StartTLS(tlsConfig)
StartTLS ==
    /\ ClientCall("tls", "StartTLS", <<>>, "mail")
    /\ UNCHANGED <<rcpt, wc, Written>>

\* c.Mail(e.Config.FromAddr)
Mail ==
    /\ ClientCall("mail", "Mail", cfg.FromAddr, RcptOrData(1))
    /\ rcpt' = 1
    /\ UNCHANGED <<wc, Written>>

\* A loop over the recipients that goes on after a rejection.
Rcpt_IgnoresRejection ==
    /\ pc = "rcpt"
    /\ \E ok \in BOOLEAN :
          log' = Append(log, Call(srv, "Rcpt", cfg.Recipients[rcpt], ok))
    /\ pc' = RcptOrData(rcpt + 1)
    /\ rcpt' = rcpt + 1
    /\ UNCHANGED <<impl, inv, envServers, cfg, Body, srv, err, terr, open, wc,
                   Written, stdout, result, exit>>

\* c.Rcpt(addr) for the next recipient
Rcpt ==
    /\ ClientCall("rcpt", "Rcpt", cfg.Recipients[rcpt], RcptOrData(rcpt + 1))
    /\ rcpt' = rcpt + 1
    /\ UNCHANGED <<wc, Written>>

\* c.Data(): on success the data writer is open.
Data ==
    /\ ClientCall("data", "Data", <<>>, "write")
    /\ wc' = IF pc' = "write" THEN "open" ELSE wc
    /\ UNCHANGED <<rcpt, Written>>

\* A write that ends the body with a line feed of its own.
Write_AppendsNewline ==
    /\ pc = "write"
    /\ log' = Append(log, Call(srv, "Write", Body, TRUE))
    /\ Written' = Written \o Body \o <<"\n">>
    /\ pc' = "wclose"
    /\ UNCHANGED <<impl, inv, envServers, cfg, Body, srv, err, terr, rcpt, open,
                   wc, stdout, result, exit>>

\* A write that takes the bytes out of the body it sends.
Write_DrainsBody ==
    /\ pc = "write"
    /\ log' = Append(log, Call(srv, "Write", Body, TRUE))
    /\ Written' = Written \o Body
    /\ Body' = <<>>
    /\ pc' = "wclose"
    /\ UNCHANGED <<impl, inv, envServers, cfg, srv, err, terr, rcpt, open, wc,
                   stdout, result, exit>>

\* wc.Write(e.Body): on failure the writer is closed before the return.
Write ==
    /\ pc = "write"
    /\ \E ok \in BOOLEAN :
          /\ log' = Append(log, Call(srv, "Write", Body, ok))
          /\ IF ok
             THEN /\ Written' = Written \o Body
                  /\ pc' = "wclose"
                  /\ terr' = terr
             ELSE /\ Written' = Written
                  /\ pc' = "wabort"
                  /\ terr' = StepError(srv, "Write")
    /\ UNCHANGED <<impl, inv, envServers, cfg, Body, srv, err, rcpt, open, wc,
                   stdout, result, exit>>

\* A failed write that returns without closing the data writer.
WriteAbort_NoClose ==
    /\ pc = "wabort"
    /\ pc' = OnFailure("wabort")
    /\ UNCHANGED <<impl, inv, envServers, cfg, Body, srv, err, terr, rcpt, open,
                   wc, Written, log, stdout, result, exit>>

\* wc.Close() after a failed Write: its result is dropped (and logged as a
\* success).
WriteAbort ==
    /\ pc = "wabort"
    /\ log' = Append(log, Call(srv, "WClose", <<>>, TRUE))
    /\ wc' = "closed"
    /\ pc' = OnFailure("wabort")
    /\ UNCHANGED <<impl, inv, envServers, cfg, Body, srv, err, terr, rcpt, open,
                   Written, stdout, result, exit>>

\* wc.Close() after the body was written
WClose ==
    /\ ClientCall("wclose", "WClose", <<>>, "quit")
    /\ wc' = "closed"
    /\ UNCHANGED <<rcpt, Written>>

\* c.Quit(): after it the transaction returns, nil on success.
Quit ==
    /\ ClientCall("quit", "Quit", <<>>, "defer")
    /\ UNCHANGED <<rcpt, wc, Written>>

\* The deferred c.Close() and the return of attemptRelayWithDialer.
DeferClose ==
    /\ pc = "defer"
    /\ Return(srv, terr, DeferredCalls(srv))
    /\ open' = Released(open, srv)
    /\ UNCHANGED <<impl, inv, envServers, cfg, Body, terr, rcpt, wc, Written>>

Next ==
    \/ ConfigNew
    \/ ReadStdin
    \/ ReadStdinFails
    \/ EmailNew
    \/ Dial
    \/ StartTLS
    \/ Mail
    \/ Rcpt
    \/ Data
    \/ Write
    \/ WriteAbort
    \/ WClose
    \/ Quit
    \/ DeferClose
    \/ SendFails

Spec == Init /\ [][Next]_vars

\* ------------------------------------------------------------------------
\* Send on an Email built directly, as the tests of the package build it
\* ------------------------------------------------------------------------

\* Largest number of recipients of such an Email (its servers are at most
\* MaxEntries).
MaxRcpt == 2

Rcpt1 == <<"r">>
Rcpt2 == <<"q">>

InitSend ==
    /\ impl \in Impls
    /\ inv = [args |-> <<>>, from |-> <<>>, verbose |-> <<>>]
    /\ envServers = <<>>
    /\ pc = "loop"
    /\ \E servers \in SeqsUpTo({Host1, Host2}, MaxEntries) :
       \E recipients \in SeqsUpTo({Rcpt1, Rcpt2}, MaxRcpt) :
          cfg = [BeVerbose |-> TRUE, ShowHelp |-> FALSE,
                 FromAddr |-> SenderArg, SmtpAddrs |-> servers,
                 Recipients |-> recipients]
    /\ Body = MsgOneRcpt
    /\ srv = 1
    /\ err = Nil
    /\ terr = Nil
    /\ rcpt = 0
    /\ open = {}
    /\ wc = "none"
    /\ Written = <<>>
    /\ log = <<>>
    /\ stdout = <<>>
    /\ result = Pending
    /\ exit = -1

NextSend ==
    \/ Dial
    \/ StartTLS
    \/ Mail
    \/ Rcpt
    \/ Data
    \/ Write
    \/ WriteAbort
    \/ WClose
    \/ Quit
    \/ DeferClose
    \/ SendFails

SpecSend == InitSend /\ [][NextSend]_vars

\* Send when every call of the dialer and of the clients returns: a step
\* that can be taken is taken.
SpecSendLive == SpecSend /\ WF_vars(NextSend)

\* ------------------------------------------------------------------------
\* email.New on messages of every shape, as TestNew calls it
\* ------------------------------------------------------------------------

\* Largest number of bytes of a header value of these messages.
MaxValueLen == 3

\* The bytes the header values are made of: an address byte, the comma, the
\* blank, the tab and the angle brackets.
ValueBytes == {"r", ",", " ", "\t", "<", ">"}

\* The header values: every string of at most MaxValueLen bytes, a name with
\* an address in angle brackets followed by a plain address, and an address
\* in angle brackets followed by more text.
HeaderValues ==
    SeqsUpTo(ValueBytes, MaxValueLen)
        \cup {<<"N", "<", "r", ">", ",", " ", "q">>, <<"<", "r", ">", "x">>}

KeyTo == <<"T", "o">>
KeyCc == <<"c", "c">>
KeyBcc == <<"B", "c", "c">>
KeySubject == <<"S">>

\* The header fields of a message around the value v: To alone, To before
\* and after a Cc, Bcc, To twice, and no recipient header at all.
FieldsAround(v) ==
    { <<<<KeyTo, v>>>>,
      <<<<KeyTo, v>>, <<KeyCc, Rcpt2>>>>,
      <<<<KeyCc, v>>, <<KeyTo, Rcpt2>>>>,
      <<<<KeyBcc, v>>, <<KeySubject, Rcpt2>>>>,
      <<<<KeyTo, v>>, <<KeyTo, Rcpt2>>>>,
      <<<<KeySubject, v>>>> }

\* The header lines of the fields, each ended by a line feed.
RECURSIVE HeaderLines(_)
HeaderLines(fields) ==
    IF fields = <<>> THEN <<>>
    ELSE Head(fields)[1] \o <<":">> \o Head(fields)[2] \o <<"\n">>
            \o HeaderLines(Tail(fields))

\* The message with these header fields; a closed one has the empty line
\* and a body after them.
MessageOf(fields, closed) ==
    HeaderLines(fields) \o (IF closed THEN <<"\n", "m">> ELSE <<>>)

\* The messages handed to email.New: the closed ones, those with a To that
\* end after the header, one that is no header block, and the empty input.
ExtractMessages ==
    {MessageOf(f, TRUE) : f \in UNION {FieldsAround(v) : v \in HeaderValues}}
        \cup {MessageOf(<<<<KeyTo, v>>>>, FALSE) : v \in HeaderValues}
        \cup {MsgBad, <<>>}

\* What the recipient list of the configuration holds before the call:
\* nothing, or the recipient of an earlier call.
PriorRecipients == {<<>>, <<Rcpt1>>}

InitExtract ==
    /\ impl \in Impls
    /\ inv = [args |-> <<>>, from |-> <<>>, verbose |-> <<>>]
    /\ envServers = <<>>
    /\ pc = "new"
    /\ \E recipients \in PriorRecipients :
          cfg = [BeVerbose |-> FALSE, ShowHelp |-> FALSE,
                 FromAddr |-> SenderArg, SmtpAddrs |-> <<Host1>>,
                 Recipients |-> recipients]
    /\ Body \in ExtractMessages
    /\ srv = 0
    /\ err = Nil
    /\ terr = Nil
    /\ rcpt = 0
    /\ open = {}
    /\ wc = "none"
    /\ Written = <<>>
    /\ log = <<>>
    /\ stdout = <<>>
    /\ result = Pending
    /\ exit = -1

NextExtract == EmailNew

SpecExtract == InitExtract /\ [][NextExtract]_vars

\* ------------------------------------------------------------------------
\* parseEnvironment and randomizeSMTPServers, as the tests of the package
\* call them
\* ------------------------------------------------------------------------

\* Largest number of servers of the lists that are shuffled.
MaxServers == 3

\* The values of MAILRELAY_SERVERS: those of a run, the lists of up to
\* MaxServers endpoints, and one with an invalid entry between two endpoints.
ConfigEnvValues ==
    EnvServerValues
        \cup {Join(es, ";") : es \in SeqsUpTo({Host1, Host2}, MaxServers)}
        \cup {Join(<<Host2, NoPort, Host1>>, ";")}

InitConfig ==
    /\ impl = "email.go"
    /\ inv \in Invocations
    /\ envServers \in ConfigEnvValues
    /\ pc = "env"
    /\ cfg = ZeroConfig
    /\ Body = <<>>
    /\ srv = 0
    /\ err = Nil
    /\ terr = Nil
    /\ rcpt = 0
    /\ open = {}
    /\ wc = "none"
    /\ Written = <<>>
    /\ log = <<>>
    /\ stdout = <<>>
    /\ result = Pending
    /\ exit = -1

\* cfg.parseEnvironment() on a new Config.
ParseEnvironment ==
    /\ pc = "env"
    /\ cfg' = parseEnvironment(cfg, envServers, inv.from, inv.verbose)
    /\ pc' = "shuffle"
    /\ UNCHANGED <<impl, inv, envServers, Body, exit>>
    /\ UNCHANGED sendVars

\* cfg.randomizeSMTPServers()
RandomizeSMTPServers ==
    /\ pc = "shuffle"
    /\ \E d \in ShuffleDraws(Len(cfg.SmtpAddrs)) :
          cfg' = randomizeSMTPServers(cfg, d)
    /\ pc' = "shuffled"
    /\ UNCHANGED <<impl, inv, envServers, Body, exit>>
    /\ UNCHANGED sendVars

NextConfig ==
    \/ ParseEnvironment
    \/ RandomizeSMTPServers

SpecConfig == InitConfig /\ [][NextConfig]_vars

\* ------------------------------------------------------------------------
\* Properties of Send
\* ------------------------------------------------------------------------

\* The log has a call c for the server at position k with P(c).
Has(k, P(_)) == \E p \in 1..Len(log) : log[p].srv = k /\ P(log[p])

\* The calls for the server at position k, in order.
CallsOf(k) == SelectSeq(log, LAMBDA c : c.srv = k)

Ops == {"Dial", "StartTLS", "Mail", "Rcpt", "Data", "Write", "WClose", "Quit"}

\* The transaction with server k has returned / returned without error.
Returned(k) == Has(k, LAMBDA c : c.op = "Return")
ReturnedNil(k) == Has(k, LAMBDA c : c.op = "Return" /\ c.ok)

\* A call (not the return) for server k failed: the transaction fails at op.
FailedAt(k, op) == Has(k, LAMBDA c : c.op = op /\ ~c.ok)

\* The transaction with server k failed at some state.
Failed(k) == Returned(k) /\ Has(k, LAMBDA c : c.op \in Ops /\ ~c.ok)

\* The transaction with server k went through all its states without error.
Succeeded(k) ==
    /\ Returned(k)
    /\ Has(k, LAMBDA c : c.op = "Quit")
    /\ ~Has(k, LAMBDA c : c.op \in Ops /\ ~c.ok)

\* The error of the transaction with server k, read from the call that failed.
ErrorOf(k) ==
    LET p == CHOOSE q \in 1..Len(log) :
                 log[q].srv = k /\ log[q].op \in Ops /\ ~log[q].ok
    IN  StepError(k, log[p].op)

\* C1: when the transactions of all servers before position i failed and the
\* transaction of server i succeeded, Send returns nil (delivered via server
\* i): none of the earlier errors reaches the caller.
C1_Failover ==
    \A i \in 1..Len(cfg.SmtpAddrs) :
        (Succeeded(i) /\ \A j \in 1..(i - 1) : Failed(j))
            => /\ result = [state |-> "nil", via |-> i, wraps |-> Nil]
               /\ exit = Success

\* A run in which the first server failed after its data phase and the
\* second one delivered.
C1_Witness ==
    /\ Len(cfg.SmtpAddrs) = 2
    /\ FailedAt(1, "Quit")
    /\ Succeeded(2)
    /\ result.via = 2

\* C2: when every transaction failed, the error Send returns wraps the error
\* of the last server of the list.
C2_WrapsLastError ==
    (result.state = "error" /\ Len(cfg.SmtpAddrs) > 0)
        => result.wraps = ErrorOf(Len(cfg.SmtpAddrs))

\* C3: the calls of one transaction are not interleaved with those of
\* another: a call that does not follow a return is for the same server as
\* the call before it, a call that follows a return is for a later server,
\* and a transaction returns only after a failed dial or after its Close.
C3_NoInterleaving ==
    \A q \in 2..Len(log) :
        /\ IF log[q - 1].op = "Return"
           THEN log[q].srv > log[q - 1].srv
           ELSE log[q].srv = log[q - 1].srv
        /\ log[q].op = "Return"
              => \/ log[q - 1].op = "Dial" /\ ~log[q - 1].ok
                 \/ log[q - 1].op = "Close"

\* The second server is in its transaction after the first one went as far
\* as Quit.
C3_Witness ==
    /\ pc = "data"
    /\ srv = 2
    /\ FailedAt(1, "Quit")

\* C4: at most one connection is open, and none is open when the next
\* server is about to be dialed or when Send has returned.
C4_OneConnection ==
    /\ Cardinality(open) <= 1
    /\ pc \in {"loop", "exit"} => open = {}
    /\ open \subseteq {srv}

\* The connection to the second server is open after one to the first
\* server was opened and closed.
C4_Witness ==
    /\ open = {2}
    /\ Has(1, LAMBDA c : c.op = "Dial" /\ c.ok)
    /\ Has(1, LAMBDA c : c.op = "Close")

\* The servers dialed, in order.
Dialed ==
    LET dials == SelectSeq(log, LAMBDA c : c.op = "Dial")
    IN  [i \in 1..Len(dials) |-> dials[i].arg]

\* C5: the servers dialed are a prefix of the server list, in its order, and
\* nothing is called once a transaction has returned without error.
C5_InOrderUntilSuccess ==
    /\ Len(Dialed) <= Len(cfg.SmtpAddrs)
    /\ Dialed = SubSeq(cfg.SmtpAddrs, 1, Len(Dialed))
    /\ \A p \in 1..Len(log) :
          (log[p].op = "Return" /\ log[p].ok) => p = Len(log)

\* Two different servers were dialed and the second one delivered.
C5_Witness ==
    /\ Len(Dialed) = 2
    /\ Dialed[1] # Dialed[2]
    /\ ReturnedNil(2)

\* C6: no endpoint is dialed twice during one Send.
C6_NoEndpointDialedTwice ==
    \A i, j \in 1..Len(Dialed) : i # j => Dialed[i] # Dialed[j]

\* C7: Send over an empty server list fails without a call, and its error
\* wraps no error.
C7_EmptyServerList ==
    Len(cfg.SmtpAddrs) = 0
        => /\ log = <<>>
           /\ pc # "loop" => result = [state |-> "error", via |-> 0, wraps |-> Nil]

\* Send has returned for an empty server list.
C7_Witness ==
    /\ Len(cfg.SmtpAddrs) = 0
    /\ result.state = "error"

\* The calls of a transaction with server k that meets no error.
SuccessfulCalls(k) ==
    <<Call(k, "Dial", cfg.SmtpAddrs[k], TRUE),
      Call(k, "StartTLS", <<>>, TRUE),
      Call(k, "Mail", cfg.FromAddr, TRUE)>>
    \o [i \in 1..Len(cfg.Recipients) |-> Call(k, "Rcpt", cfg.Recipients[i], TRUE)]
    \o <<Call(k, "Data", <<>>, TRUE),
         Call(k, "Write", Body, TRUE),
         Call(k, "WClose", <<>>, TRUE),
         Call(k, "Quit", <<>>, TRUE),
         Call(k, "Close", <<>>, TRUE),
         Call(k, "Return", <<>>, TRUE)>>

\* C8: the calls of a transaction that returned nil are, in this order, the
\* dial, StartTLS, Mail with the sender, one Rcpt per recipient in the order
\* of the recipient list, Data, the write of the body, the close of the data
\* writer, Quit and Close, each once.
C8_SuccessfulSequence ==
    \A k \in 1..Len(cfg.SmtpAddrs) :
        ReturnedNil(k) => CallsOf(k) = SuccessfulCalls(k)

\* A transaction with two different recipients returned nil.
C8_Witness ==
    /\ Len(cfg.Recipients) = 2
    /\ cfg.Recipients[1] # cfg.Recipients[2]
    /\ \E k \in 1..Len(cfg.SmtpAddrs) : ReturnedNil(k)

\* What may follow the failed call op on the same server: the close of the
\* data writer after a failed write, the deferred Close (not after a failed
\* dial), and the return.
AfterFailure(op) ==
    CASE op = "Dial" -> {"Return"}
      [] op = "Write" -> {"WClose", "Close", "Return"}
      [] OTHER -> {"Close", "Return"}

\* C9: after a failed call the transaction makes no call of a later state:
\* what follows on that server is only the release (the data writer closed
\* after a failed write, the connection closed) and the return of an error,
\* which is made before the loop goes on.
C9_FailureShortCircuits ==
    \A p \in 1..Len(log) :
        (log[p].op \in Ops /\ ~log[p].ok)
            => /\ \A q \in (p + 1)..Len(log) :
                     log[q].srv = log[p].srv
                        => /\ log[q].op \in AfterFailure(log[p].op)
                           /\ log[q].op = "Return" => ~log[q].ok
               /\ (pc \in {"loop", "exit"} \/ srv # log[p].srv)
                     => Returned(log[p].srv)

\* The first transaction failed at the close of the data writer, the second
\* at a recipient; both have returned.
C9_Witness ==
    /\ FailedAt(1, "WClose")
    /\ FailedAt(2, "Rcpt")
    /\ Returned(2)

\* C10: a transaction whose dial succeeded calls Close once, as its last call
\* before it returns, whatever the outcome; one whose dial failed makes no
\* call on a client.
C10_CloseOnEveryPath ==
    \A k \in 1..Len(cfg.SmtpAddrs) :
        LET calls == CallsOf(k)
            closes == {i \in 1..Len(calls) : calls[i].op = "Close"}
        IN  /\ Cardinality(closes) <= 1
            /\ \A i \in closes : i = Len(calls) - 1 /\ calls[Len(calls)].op = "Return"
            /\ Returned(k) =>
                  IF calls[1].ok
                  THEN Cardinality(closes) = 1
                  ELSE [i \in 1..Len(calls) |-> calls[i].op] = <<"Dial", "Return">>

\* Two transactions have returned: the first failed at the dial, the second
\* dialed and was closed.
C10_Witness ==
    /\ FailedAt(1, "Dial")
    /\ Returned(2)
    /\ Has(2, LAMBDA c : c.op = "Close")

\* C11: a recipient rejected by Rcpt ends the transaction: on that server
\* every other Rcpt came before it and was accepted, there is no Data (and
\* no write, close of the writer or Quit), Send does not deliver through
\* that server, and the transaction returns an error.
C11_RcptRejectionAborts ==
    \A p \in 1..Len(log) :
        (log[p].op = "Rcpt" /\ ~log[p].ok)
            => /\ \A q \in 1..Len(log) :
                     (q # p /\ log[q].srv = log[p].srv)
                        => /\ log[q].op = "Rcpt" => (q < p /\ log[q].ok)
                           /\ log[q].op \notin {"Data", "Write", "WClose", "Quit"}
                           /\ log[q].op = "Return" => ~log[q].ok
               /\ result.via # log[p].srv
               /\ (pc \in {"loop", "exit"} \/ srv # log[p].srv)
                     => Returned(log[p].srv)

\* The first of two recipients was rejected by the first server, whose
\* transaction has returned.
C11_Witness ==
    /\ Len(cfg.Recipients) = 2
    /\ Has(1, LAMBDA c : c.op = "Rcpt" /\ ~c.ok /\ c.arg = cfg.Recipients[1])
    /\ Returned(1)

\* C12: what the data writer of a transaction that went through received
\* is the body, byte for byte, handed over in one write, and the writer is
\* closed right after that write.
C12_BodyWrittenVerbatim ==
    /\ (pc = "quit" \/ \E k \in 1..Len(cfg.SmtpAddrs) : ReturnedNil(k))
          => (Written = Body /\ wc = "closed")
    /\ \A p \in 1..Len(log) :
          /\ log[p].op = "Write" => log[p].arg = Body
          /\ log[p].op = "WClose"
                => (p > 1 /\ log[p - 1].op = "Write"
                          /\ log[p - 1].srv = log[p].srv)

\* A message was delivered: its bytes went to the data writer, now closed.
C12_Witness ==
    /\ exit = Success
    /\ result.state = "nil"
    /\ Len(Body) > 0
    /\ Written = Body
    /\ wc = "closed"

\* ------------------------------------------------------------------------
\* Properties of email.New
\* ------------------------------------------------------------------------

\* The values of all the header fields of the message named key, in the
\* order of the message.
FieldValues(body, key) ==
    LET named == SelectSeq(ReadMessage(body).header, LAMBDA f : f[1] = key)
    IN  [i \in 1..Len(named) |-> named[i][2]]

\* The comma parts of the values, left to right.
RECURSIVE PartsOf(_)
PartsOf(values) ==
    IF values = <<>> THEN <<>>
    ELSE Split(Head(values), ",") \o PartsOf(Tail(values))

\* The comma parts of the To, the Cc and the Bcc fields, in this order.
RecipientParts(body) ==
    PartsOf(FieldValues(body, <<"T", "o">>))
        \o PartsOf(FieldValues(body, <<"C", "c">>))
        \o PartsOf(FieldValues(body, <<"B", "c", "c">>))

\* Those that are not empty once the spaces around them are cut.
NonEmptyParts(body) ==
    SelectSeq(RecipientParts(body), LAMBDA part : Trim(part, {" "}) # <<>>)

\* email.New is called with an empty recipient list on a message that can
\* be parsed.
ExtractsAfresh ==
    /\ pc = "new"
    /\ cfg.Recipients = <<>>
    /\ ~ReadMessage(Body).err

\* C13: a message that can be parsed and whose To, Cc and Bcc fields hold N
\* non-empty comma parts gives N recipients: the i-th recipient is the
\* address of the i-th part, counted through To, then Cc, then Bcc.
C13_OneEntryPerPart ==
    [][ExtractsAfresh
         => LET parts == NonEmptyParts(Body)
            IN  /\ pc' = "loop"
                /\ Len(cfg'.Recipients) = Len(parts)
                /\ \A i \in 1..Len(parts) :
                      LET trimmed == Trim(parts[i], {" "})
                          matches == FindStringSubmatch(trimmed)
                      IN  cfg'.Recipients[i] \in {trimmed, matches.group}]_vars

\* C14: a message that can be parsed and has no To, Cc or Bcc field, or only
\* empty ones, gives no recipient and no error.
C14_NoRecipientHeaders ==
    [][(ExtractsAfresh /\ \A i \in 1..Len(RecipientParts(Body)) :
                              RecipientParts(Body)[i] = <<>>)
         => (pc' = "loop" /\ cfg'.Recipients = <<>>)]_vars

\* The recipient of one trimmed part as the rule reads: what the angle
\* brackets hold when the part ends with an address in angle brackets, the
\* part itself otherwise.
AngleAddress(trimmed) ==
    LET lt == LastIndex(trimmed, "<")
    IN  IF trimmed[Len(trimmed)] = ">" /\ lt > 0
        THEN SubSeq(trimmed, lt + 1, Len(trimmed) - 1)
        ELSE trimmed

\* The recipients of the parts as the rule reads: none for a part that is
\* empty once trimmed.
RECURSIVE AddressesOf(_)
AddressesOf(parts) ==
    IF parts = <<>> THEN <<>>
    ELSE LET trimmed == Trim(Head(parts), {" "})
         IN  (IF trimmed = <<>> THEN <<>> ELSE <<AngleAddress(trimmed)>>)
                \o AddressesOf(Tail(parts))

\* C15: for a message with at most one To, one Cc and one Bcc field, each
\* comma part gives the contents of its angle brackets when it ends with an
\* address in angle brackets and the trimmed part otherwise, and a part that
\* is empty once trimmed gives nothing.
C15_AddressOfPart ==
    [][(ExtractsAfresh
          /\ \A key \in {<<"T", "o">>, <<"C", "c">>, <<"B", "c", "c">>} :
                Len(FieldValues(Body, key)) <= 1)
         => cfg'.Recipients = AddressesOf(RecipientParts(Body))]_vars

\* C16: when the header block cannot be parsed, email.New fails: main exits
\* with ParseError, nothing is sent, and the configuration (its recipient
\* list with it) is what it was before the call.
C16_ParseErrorLeavesConfig ==
    [][(pc = "new" /\ ReadMessage(Body).err)
         => /\ pc' = "exit"
            /\ exit' = ParseError
            /\ cfg' = cfg
            /\ log' = <<>>
            /\ result' = Pending]_vars

\* email.New has failed on a message that is no header block, called with a
\* recipient list that held an address: the list still holds just that.
C16_Witness ==
    /\ pc = "exit"
    /\ exit = ParseError
    /\ Body = MsgBad
    /\ cfg.Recipients = <<Rcpt1>>

\* C17: the recipients email.New leaves in the configuration are those of
\* the message alone, whatever the list held before the call.
C17_IndependentOfPrior ==
    [][(pc = "new" /\ pc' = "loop")
         => cfg'.Recipients = parseRecipients(impl, <<>>, Body).recipients]_vars

\* ------------------------------------------------------------------------
\* Properties of main and config.New
\* ------------------------------------------------------------------------

\* The invocations for which config.New returns to main: it exits itself
\* for a command line the flag package rejects and for -h.
ReturningInvocations ==
    {i \in Invocations :
        LET pa == parseArguments(ZeroConfig, i.args)
        IN  ~pa.err /\ ~pa.cfg.ShowHelp}

ConfigReturns == inv \in ReturningInvocations

\* The entries of a value of MAILRELAY_SERVERS that are host:port pairs.
ValidEntries(servers) ==
    SelectSeq(Split(Trim(servers, {"\""}), ";"), SplitHostPortOK)

\* The sender of an invocation: MAILRELAY_FROM, or else the value of -f.
SenderOf(i) ==
    IF i.from # <<>> THEN i.from
    ELSE parseArguments(ZeroConfig, i.args).cfg.FromAddr

\* The values of MAILRELAY_SERVERS that configure no valid SMTP address,
\* and the invocations that leave the sender empty.
NoValidServer == {servers \in EnvServerValues : ValidEntries(servers) = <<>>}
NoSender == {i \in Invocations : SenderOf(i) = <<>>}

\* No valid SMTP address is configured or the sender is empty.
ConfigInvalid == envServers \in NoValidServer \/ inv \in NoSender

\* The messages of stdin that mail.ReadMessage rejects.
Unparseable == {body \in Messages : ReadMessage(body).err}

\* The message has been read from stdin.
StdinRead == pc \notin {"start", "stdin"} /\ Body # <<>>

\* C18: in a run whose configuration is invalid (no sender or no valid
\* server) and in a run whose message cannot be parsed, no server is dialed
\* and Send is never entered; the process ends with ConfigError or
\* ParseError without a call on its log.
C18_NoSendAfterFatalError ==
    /\ (ConfigReturns /\ ConfigInvalid)
          => /\ pc \in {"start", "exit"}
             /\ pc = "exit" => exit = ConfigError
             /\ log = <<>> /\ result = Pending /\ open = {} /\ Written = <<>>
    /\ (StdinRead /\ Body \in Unparseable)
          => /\ pc \in {"new", "exit"}
             /\ pc = "exit" => exit = ParseError
             /\ log = <<>> /\ result = Pending /\ open = {} /\ Written = <<>>
    /\ exit \in {ConfigError, ParseError}
          => (log = <<>> /\ result = Pending)

\* A run with two servers and a sender has ended on a message that is no
\* header block.
C18_Witness ==
    /\ pc = "exit"
    /\ exit = ParseError
    /\ Len(cfg.SmtpAddrs) = 2
    /\ Body = MsgBad
    /\ log = <<>>

\* What the exit codes tell of a run, but for the meaning of code 0.
ExitCodeOfFailure ==
    /\ Cardinality({Success, ConfigError, SendError, IOError, ParseError}) = 5
    /\ (ConfigReturns /\ ConfigInvalid /\ pc # "start") => exit = ConfigError
    /\ exit = ConfigError => ConfigInvalid
    /\ result.state = "error" <=> (pc = "exit" /\ srv > Len(cfg.SmtpAddrs))
    /\ result.state = "error" => exit = SendError
    /\ exit = IOError => (Body = <<>> /\ log = <<>>)
    /\ (StdinRead /\ Body \in Unparseable /\ pc # "new") => exit = ParseError
    /\ exit = ParseError => (StdinRead /\ Body \in Unparseable)

ConfigSucceeded == pc # "start" /\ ConfigReturns /\ exit # ConfigError

\* The entries of MAILRELAY_SERVERS that are host:port pairs.
HostPortPairs == {entry \in EnvEntries : SplitHostPortOK(entry)}

\* What holds of the Config that config.New returns.
ValidConfig ==
    /\ cfg.SmtpAddrs # <<>>
    /\ \A i \in 1..Len(cfg.SmtpAddrs) : cfg.SmtpAddrs[i] \in HostPortPairs
    /\ cfg.FromAddr # <<>>

\* C20 as stated: config.New has failed exactly when the configuration is
\* invalid, and the Config of a success is valid.
C20_ConfigNewResult ==
    pc # "start"
        => /\ exit = ConfigError <=> ConfigInvalid
           /\ ConfigSucceeded => ValidConfig

\* C20: when config.New returns (it exits the process itself, with code 0
\* for -h and with the code of the flag package for a rejected command
\* line), it returns an error exactly when no valid SMTP address is
\* configured or the sender is empty; the Config of a success has a
\* non-empty server list of host:port pairs and a non-empty sender.
C20_ConfigNewResultWhenItReturns ==
    pc # "start"
        => /\ ConfigReturns => (exit = ConfigError <=> ConfigInvalid)
           /\ ~ConfigReturns
                 => (pc = "exit" /\ exit \in {Success, FlagError}
                                 /\ cfg.SmtpAddrs = <<>>)
           /\ ConfigSucceeded => ValidConfig

\* config.New has returned a Config with one server, for an environment
\* that names two entries: the one that is no host:port pair was dropped.
C20_Witness ==
    /\ pc = "stdin"
    /\ Len(cfg.SmtpAddrs) = 1
    /\ Len(Split(envServers, ";")) = 2
    /\ ValidConfig

\* ------------------------------------------------------------------------
\* Properties of parseEnvironment and randomizeSMTPServers
\* ------------------------------------------------------------------------

\* C21: parseEnvironment never fails, and the servers it leaves in the
\* Config are the entries of MAILRELAY_SERVERS that are host:port pairs, each
\* as often as it is listed and in the order of the list; an entry that is
\* none is left out.
C21_InvalidEntriesDropped ==
    [][pc = "env"
         => /\ pc' = "shuffle"
            /\ exit' = -1
            /\ cfg'.SmtpAddrs = ValidEntries(envServers)]_vars

\* parseEnvironment has read a list with an invalid entry between two
\* endpoints: the endpoints are kept, in their order.
C21_Witness ==
    /\ pc = "shuffle"
    /\ envServers = Join(<<Host2, NoPort, Host1>>, ";")
    /\ cfg.SmtpAddrs = <<Host2, Host1>>

\* How often x is an element of the sequence s.
Count(s, x) == Cardinality({i \in 1..Len(s) : s[i] = x})

\* C22: for every sequence of draws, the list randomizeSMTPServers leaves
\* has the length of the list it found and holds every server as often as
\* that one; the two positions it exchanges in iteration k are positions of
\* the list.
C22_ShuffleIsPermutation ==
    /\ [][pc = "shuffle"
            => /\ Len(cfg'.SmtpAddrs) = Len(cfg.SmtpAddrs)
               /\ \A x \in {Host1, Host2, NoPort} :
                     Count(cfg'.SmtpAddrs, x) = Count(cfg.SmtpAddrs, x)]_vars
    /\ [](pc = "shuffle"
            => \A d \in ShuffleDraws(Len(cfg.SmtpAddrs)) :
               \A k \in 0..(Len(cfg.SmtpAddrs) - 1) :
               \A j \in 1..2 :
                  d[k][j] % (k + 1) \in 0..(Len(cfg.SmtpAddrs) - 1))

\* A list of three servers, two of them the same, has been shuffled into
\* another order.
C22_Witness ==
    /\ pc = "shuffled"
    /\ envServers = Join(<<Host1, Host1, Host2>>, ";")
    /\ cfg.SmtpAddrs = <<Host2, Host1, Host1>>

\* ------------------------------------------------------------------------
\* Further properties of Send
\* ------------------------------------------------------------------------

\* C23: Send never dials more often than the server list is long, it has
\* dialed exactly that often when it returns the error of a Send in which
\* every transaction failed, and, every call returning, it does return.
C23_BoundedDials ==
    /\ [](/\ Len(Dialed) <= Len(cfg.SmtpAddrs)
          /\ result.state = "error" => Len(Dialed) = Len(cfg.SmtpAddrs))
    /\ <>(pc = "exit" /\ result.state \in {"nil", "error"})

\* Send has returned its error after a dial of each of two servers.
C23_Witness ==
    /\ result.state = "error"
    /\ Len(cfg.SmtpAddrs) = 2
    /\ Len(Dialed) = 2

\* C24: no step of Send changes the configuration (the server list and its
\* order, the recipients, the sender) or the body.
C24_SendReadsOnly ==
    [][cfg' = cfg /\ Body' = Body]_vars

\* Send has delivered through the second server, after a transaction with
\* the first that failed, to two recipients.
C24_Witness ==
    /\ exit = Success
    /\ result.via = 2
    /\ Failed(1)
    /\ cfg.SmtpAddrs = <<Host1, Host2>>
    /\ cfg.Recipients = <<Rcpt1, Rcpt2>>
    /\ Body = MsgOneRcpt

\* The calls of a transaction with server k that has no recipient to declare
\* and meets no error.
CallsWithoutRcpt(k) ==
    <<Call(k, "Dial", cfg.SmtpAddrs[k], TRUE),
      Call(k, "StartTLS", <<>>, TRUE),
      Call(k, "Mail", cfg.FromAddr, TRUE),
      Call(k, "Data", <<>>, TRUE),
      Call(k, "Write", Body, TRUE),
      Call(k, "WClose", <<>>, TRUE),
      Call(k, "Quit", <<>>, TRUE),
      Call(k, "Close", <<>>, TRUE),
      Call(k, "Return", <<>>, TRUE)>>

\* C25: with no recipient, no Rcpt is called: a successful Mail is followed
\* by Data on the same server, and a transaction that has returned without
\* a failed call has gone through Data, the write, the close of the writer
\* and Quit and has returned nil.
C25_NoRecipients ==
    Len(cfg.Recipients) = 0
        => /\ \A p \in 1..Len(log) :
                 /\ log[p].op # "Rcpt"
                 /\ (log[p].op = "Mail" /\ log[p].ok)
                       => IF p = Len(log) THEN pc = "data"
                          ELSE (log[p + 1].op = "Data"
                                   /\ log[p + 1].srv = log[p].srv)
           /\ \A k \in 1..Len(cfg.SmtpAddrs) :
                 (Returned(k) /\ ~Has(k, LAMBDA c : c.op \in Ops /\ ~c.ok))
                    => CallsOf(k) = CallsWithoutRcpt(k)

\* Send has delivered a message to no recipient.
C25_Witness ==
    /\ Len(cfg.Recipients) = 0
    /\ exit = Success
    /\ \E k \in 1..Len(cfg.SmtpAddrs) : CallsOf(k) = CallsWithoutRcpt(k)

\* ------------------------------------------------------------------------
\* Further properties of email.New
\* ------------------------------------------------------------------------

\* The recipients of the parts when blanks and tabs alike are cut from each
\* part: none for a part that is empty once trimmed.
RECURSIVE TrimmedAddressesOf(_)
TrimmedAddressesOf(parts) ==
    IF parts = <<>> THEN <<>>
    ELSE LET trimmed == Trim(Head(parts), WhiteSpace)
             matches == FindStringSubmatch(trimmed)
         IN  (IF trimmed = <<>> THEN <<>>
              ELSE IF matches.matched THEN <<matches.group>>
              ELSE <<trimmed>>)
                \o TrimmedAddressesOf(Tail(parts))

\* C26: for a message with at most one To, one Cc and one Bcc field, the
\* recipients are those of the comma parts with the blanks and the tabs
\* around each part cut: a part of blanks and tabs only gives no recipient,
\* and a recipient taken from a part without angle brackets neither begins
\* nor ends with a blank or a tab.
C26_WhitespaceTrimmed ==
    [][(ExtractsAfresh
          /\ \A key \in {<<"T", "o">>, <<"C", "c">>, <<"B", "c", "c">>} :
                Len(FieldValues(Body, key)) <= 1)
         => cfg'.Recipients = TrimmedAddressesOf(RecipientParts(Body))]_vars

\* ------------------------------------------------------------------------
\* The data phase
\* ------------------------------------------------------------------------

\* The server at position k has accepted the body: the write and the close
\* of the data writer both succeeded.
Accepted(k) ==
    /\ Has(k, LAMBDA c : c.op = "Write" /\ c.ok)
    /\ Has(k, LAMBDA c : c.op = "WClose" /\ c.ok)

\* C27: within one Send at most one server accepts the body.
C27_AcceptedAtMostOnce ==
    \A j, k \in 1..Len(cfg.SmtpAddrs) : (Accepted(j) /\ Accepted(k)) => j = k

\* C28: a data writer that Data has opened is closed once on every path: no
\* server sees two closes of a writer, and a transaction that has returned
\* after a successful Data has closed its writer.  After a failed write the
\* writer is closed, Quit is not called, and the error the transaction
\* returns is that of the write.
C28_WriterClosedOnce ==
    /\ \A p, q \in 1..Len(log) :
          (log[p].op = "WClose" /\ log[q].op = "WClose"
              /\ log[p].srv = log[q].srv) => p = q
    /\ \A p \in 1..Len(log) :
          /\ log[p].op = "WClose" => Has(log[p].srv, LAMBDA c : c.op = "Data" /\ c.ok)
          /\ (log[p].op = "Return"
                /\ Has(log[p].srv, LAMBDA c : c.op = "Data" /\ c.ok))
                => Has(log[p].srv, LAMBDA c : c.op = "WClose")
          /\ (log[p].op = "Write" /\ ~log[p].ok)
                => /\ ~Has(log[p].srv, LAMBDA c : c.op = "Quit")
                   /\ p < Len(log) => log[p + 1].op = "WClose"
                   /\ log[Len(log)].srv = log[p].srv
                         => IF log[Len(log)].op = "Return"
                            THEN err = StepError(log[p].srv, "Write")
                            ELSE terr = StepError(log[p].srv, "Write")
    /\ (pc \in {"quit", "defer", "loop", "exit"} /\ wc # "none") => wc = "closed"

\* The write to the first server failed: its writer was closed and its
\* transaction has returned the error of the write.
C28_Witness ==
    /\ FailedAt(1, "Write")
    /\ Has(1, LAMBDA c : c.op = "WClose")
    /\ log[Len(log)] = Call(1, "Return", <<>>, FALSE)
    /\ err = StepError(1, "Write")
    /\ wc = "closed"

====
